---- MODULE Spec2Model ----
(***************************************************************************)
(* A model of the update poller of package telebot (Bot.PollUpdates) and   *)
(* of the RPC transport it sits on (Caller.do).                            *)
(*                                                                         *)
(* One polling session is modelled: the caller, who starts the session,    *)
(* may cancel its context and receives from the two unbuffered channels,   *)
(* the goroutine started by PollUpdates, and the remote endpoint answering *)
(* each getUpdates call.  The goroutine's steps are cut at its blocking    *)
(* points: the select, the remote call, the two channel sends, the sleep.  *)
(*                                                                         *)
(* Go's int64 is modelled as a two's complement integer of IntBits bits,   *)
(* so that upd.ID + 1 wraps as it does in the program.  A batch is a list  *)
(* of non-nil updates, as the remote API produces.                         *)
(***************************************************************************)
EXTENDS Integers, Sequences, FiniteSets, TLC

\* ------------------------------------------------------------------------
\* Bounds of the model
\* ------------------------------------------------------------------------

\* width in bits of the modelled int64
IntBits == 4
\* number of updates the remote endpoint returns in one session
MaxReturned == 3
\* consecutive failed calls are counted up to this number
MaxFailures == 2
\* longest batch the remote endpoint returns
MaxBatch == 2

\* ------------------------------------------------------------------------
\* Program constants and int64 arithmetic
\* ------------------------------------------------------------------------

\* DefaultPollTimeout, in seconds
DefaultPollTimeout == 60
\* DefaultBackoffPeriod, in seconds
DefaultBackoffPeriod == 5

Modulus == 2 ^ IntBits
MaxInt64 == 2 ^ (IntBits - 1) - 1
MinInt64 == 0 - 2 ^ (IntBits - 1)

\* the int64 value of the mathematical integer x (two's complement wrap)
Int64(x) == ((x - MinInt64) % Modulus) + MinInt64

\* ------------------------------------------------------------------------
\* Values
\* ------------------------------------------------------------------------

\* update identifiers the remote endpoint may send
UpdateIDs == {1, 2, MaxInt64}
\* an Update; only its ID matters to the poller
Update == [ID : UpdateIDs]

RECURSIVE SeqsUpTo(_, _)
SeqsUpTo(S, n) ==
    IF n = 0 THEN {<<>>}
    ELSE LET shorter == SeqsUpTo(S, n - 1)
         IN  shorter \cup {Append(s, x) : s \in {t \in shorter : Len(t) = n - 1}, x \in S}

Batches == SeqsUpTo(Update, MaxBatch)

\* the nil error
NoError == [kind |-> "nil"]
\* error of http.Client.Do: network failure or timeout
NetError == [kind |-> "net"]
\* error of decoding the response body into outerResponse
EnvelopeError == [kind |-> "envelope"]
\* error of json.Unmarshal of outer.Result into the response value
UnmarshalError == [kind |-> "unmarshal"]
\* *Error: the failure declared by the remote API
Error(code, description) ==
    [kind |-> "Error", HTTPCode |-> code, Description |-> description]

\* A reply of the remote endpoint to one HTTP request:
\*   net         client.Do returned a response
\*   parses      the body decodes into outerResponse
\*   StatusCode  the HTTP status
\*   Ok, Description, Result   the fields of outerResponse;
\*   Result.decodes tells whether the payload unmarshals into the response
\*   value, Result.value is what json.Unmarshal leaves in the response value
\*   (on failure, the part decoded before the error)
Reply(net, parses, code, ok, description, decodes, value) ==
    [net |-> net, parses |-> parses, StatusCode |-> code, Ok |-> ok,
     Description |-> description, Result |-> [decodes |-> decodes, value |-> value]]

\* replies to the getUpdates calls of the session
PollReplies ==
    {Reply(FALSE, FALSE, 0, FALSE, "", FALSE, <<>>)}
    \cup {Reply(TRUE, FALSE, 502, FALSE, "", FALSE, <<>>)}
    \cup {Reply(TRUE, TRUE, 409, FALSE, "", FALSE, <<>>)}
    \cup {Reply(TRUE, TRUE, 200, TRUE, "", FALSE, <<[ID |-> 1]>>)}
    \cup {Reply(TRUE, TRUE, 200, TRUE, "", TRUE, batch) : batch \in Batches}

\* ------------------------------------------------------------------------
\* Caller
\* ------------------------------------------------------------------------

\* EndpointURL
EndpointURL == "https://api.telegram.org/bot"
\* timeout of Caller.client, in seconds
ClientTimeout == 10
\* timeout of Caller.pollClient, in seconds
PollClientTimeout == 300

\* an access token, and one with a character no URL may hold
GoodToken == "123:abc"
BadToken == "123:a\nbc"
Tokens == {GoodToken, BadToken}

\* method names of the remote API used here
MethodNames == {"getMe", "getUpdates", "sendLocation", "deleteWebhook"}

\* NewCaller
NewCaller(endpoint, token) ==
    [prefix |-> endpoint \o token \o "/",
     client |-> [Timeout |-> ClientTimeout],
     pollClient |-> [Timeout |-> PollClientTimeout]]

\* the request argument of Caller.do: the nil interface, a *GetUpdates, a nil
\* *GetUpdates, or a *SendLocation whose Latitude may be NaN
NilRequest == [kind |-> "nil"]
NilPointer == [kind |-> "nilptr"]
GetUpdatesRequest(r) == [kind |-> "GetUpdates", Offset |-> r.Offset, Timeout |-> r.Timeout]
SendLocation(lat, nan) == [kind |-> "SendLocation", Latitude |-> lat, IsNaN |-> nan]

\* error of json.Marshal
MarshalError == [kind |-> "marshal"]
\* error of http.NewRequest
RequestError == [kind |-> "request"]

\* json.Marshal(request): the JSON text as the set of its members, a member
\* being <<name, value>>; omitempty leaves out a zero offset or timeout;
\* a nil pointer is the text null, here the member <<"null", 0>>
Marshal(request) ==
    IF request.kind = "GetUpdates" THEN
        [err |-> NoError,
         buf |-> {<<"offset", request.Offset>> : x \in {y \in {0} : request.Offset # 0}}
                 \cup {<<"timeout", request.Timeout>> : x \in {y \in {0} : request.Timeout # 0}}]
    ELSE IF request.kind = "SendLocation" THEN
        IF request.IsNaN
        THEN [err |-> MarshalError, buf |-> {}]
        ELSE [err |-> NoError, buf |-> {<<"latitude", request.Latitude>>}]
    ELSE [err |-> NoError, buf |-> {<<"null", 0>>}]

\* url.Parse, as http.NewRequest applies it: a control character is rejected
URLParses(url) ==
    url \notin {EndpointURL \o BadToken \o "/" \o name : name \in MethodNames}

\* the HTTP request built by http.NewRequest and the header set on it
HTTPRequest(method, url, hasBody, body, contentType) ==
    [method |-> method, url |-> url, hasBody |-> hasBody, body |-> body,
     contentType |-> contentType]
\* no request was built
NoRequest == HTTPRequest("", "", FALSE, {}, "")

\* what one invocation of Caller.do did:
\*   err           the error returned
\*   response      the caller's response value, which held zero before
\*   http          the HTTP request built
\*   trips         how often client.Do was called
\*   timeout       the timeout of the client used
\*   unmarshalled  json.Unmarshal was applied to outer.Result
Outcome(e, response, http, trips, timeout, unmarshalled) ==
    [err |-> e, response |-> response, http |-> http, trips |-> trips,
     timeout |-> timeout, unmarshalled |-> unmarshalled]

\* doEnvelope that drops the error of json.Unmarshal
doEnvelopeIgnoresUnmarshal(http, timeout, wantResponse, zero, reply) ==
    IF ~reply.Ok THEN
        IF Len(reply.Description) = 0
        THEN Outcome(Error(reply.StatusCode, "undefined error"), zero, http, 1,
                     timeout, FALSE)
        ELSE Outcome(Error(reply.StatusCode, reply.Description), zero, http, 1,
                     timeout, FALSE)
    ELSE IF wantResponse
    THEN Outcome(NoError, reply.Result.value, http, 1, timeout, TRUE)
    ELSE Outcome(NoError, zero, http, 1, timeout, FALSE)

\* doEnvelope that passes an empty description on
doEnvelopeKeepsDescription(http, timeout, wantResponse, zero, reply) ==
    IF ~reply.Ok
    THEN Outcome(Error(reply.StatusCode, reply.Description), zero, http, 1,
                 timeout, FALSE)
    ELSE IF wantResponse THEN
        IF ~reply.Result.decodes
        THEN Outcome(UnmarshalError, reply.Result.value, http, 1, timeout, TRUE)
        ELSE Outcome(NoError, reply.Result.value, http, 1, timeout, TRUE)
    ELSE Outcome(NoError, zero, http, 1, timeout, FALSE)

\* doEnvelope that unmarshals the payload before it looks at ok
doEnvelopeUnmarshalsFirst(http, timeout, wantResponse, zero, reply) ==
    LET response == IF wantResponse THEN reply.Result.value ELSE zero
    IN  IF ~reply.Ok THEN
            IF Len(reply.Description) = 0
            THEN Outcome(Error(reply.StatusCode, "undefined error"), response, http,
                         1, timeout, wantResponse)
            ELSE Outcome(Error(reply.StatusCode, reply.Description), response, http,
                         1, timeout, wantResponse)
        ELSE IF wantResponse /\ ~reply.Result.decodes
        THEN Outcome(UnmarshalError, response, http, 1, timeout, TRUE)
        ELSE Outcome(NoError, response, http, 1, timeout, wantResponse)

\* doEnvelope that takes an HTTP status other than 200 for a failure
doEnvelopeChecksStatus(http, timeout, wantResponse, zero, reply) ==
    IF ~reply.Ok \/ reply.StatusCode # 200 THEN
        IF Len(reply.Description) = 0
        THEN Outcome(Error(reply.StatusCode, "undefined error"), zero, http, 1,
                     timeout, FALSE)
        ELSE Outcome(Error(reply.StatusCode, reply.Description), zero, http, 1,
                     timeout, FALSE)
    ELSE IF wantResponse THEN
        IF ~reply.Result.decodes
        THEN Outcome(UnmarshalError, reply.Result.value, http, 1, timeout, TRUE)
        ELSE Outcome(NoError, reply.Result.value, http, 1, timeout, TRUE)
    ELSE Outcome(NoError, zero, http, 1, timeout, FALSE)

\* Caller.do from the parsed envelope on
doEnvelope(http, timeout, wantResponse, zero, reply) ==
    IF ~reply.Ok THEN
        IF Len(reply.Description) = 0
        THEN Outcome(Error(reply.StatusCode, "undefined error"), zero, http, 1,
                     timeout, FALSE)
        ELSE Outcome(Error(reply.StatusCode, reply.Description), zero, http, 1,
                     timeout, FALSE)
    ELSE IF wantResponse THEN
        IF ~reply.Result.decodes
        THEN Outcome(UnmarshalError, reply.Result.value, http, 1, timeout, TRUE)
        ELSE Outcome(NoError, reply.Result.value, http, 1, timeout, TRUE)
    ELSE Outcome(NoError, zero, http, 1, timeout, FALSE)

\* doTransaction that tries once more when client.Do fails
doTransactionRetries(http, timeout, wantResponse, zero, reply) ==
    IF ~reply.net THEN Outcome(NetError, zero, http, 2, timeout, FALSE)
    ELSE IF ~reply.parses THEN Outcome(EnvelopeError, zero, http, 1, timeout, FALSE)
    ELSE doEnvelope(http, timeout, wantResponse, zero, reply)

\* Caller.do from the HTTP transaction on
doTransaction(http, timeout, wantResponse, zero, reply) ==
    IF ~reply.net THEN Outcome(NetError, zero, http, 1, timeout, FALSE)
    ELSE IF ~reply.parses THEN Outcome(EnvelopeError, zero, http, 1, timeout, FALSE)
    ELSE doEnvelope(http, timeout, wantResponse, zero, reply)

\* do that sets the Content-Type header on every request
doAlwaysSetsContentType(c, client, name, request, wantResponse, zero, reply) ==
    LET method == IF request # NilRequest THEN "POST" ELSE "GET"
        input == IF request # NilRequest THEN Marshal(request)
                 ELSE [err |-> NoError, buf |-> {}]
        url == c.prefix \o name
        http == HTTPRequest(method, url, request # NilRequest, input.buf,
                            "application/json")
    IN  IF input.err # NoError
        THEN Outcome(input.err, zero, NoRequest, 0, client.Timeout, FALSE)
        ELSE IF ~URLParses(url)
        THEN Outcome(RequestError, zero, NoRequest, 0, client.Timeout, FALSE)
        ELSE doTransaction(http, client.Timeout, wantResponse, zero, reply)

\* Caller.do: wantResponse is `response != nil`, reply is what the remote
\* endpoint answers if it is asked
do(c, client, name, request, wantResponse, zero, reply) ==
    LET method == IF request # NilRequest THEN "POST" ELSE "GET"
        input == IF request # NilRequest THEN Marshal(request)
                 ELSE [err |-> NoError, buf |-> {}]
        url == c.prefix \o name
        http == HTTPRequest(method, url, request # NilRequest, input.buf,
                            IF request # NilRequest THEN "application/json" ELSE "")
    IN  IF input.err # NoError
        THEN Outcome(input.err, zero, NoRequest, 0, client.Timeout, FALSE)
        ELSE IF ~URLParses(url)
        THEN Outcome(RequestError, zero, NoRequest, 0, client.Timeout, FALSE)
        ELSE doTransaction(http, client.Timeout, wantResponse, zero, reply)

\* Caller.Call: do with the standard client
Call(c, name, request, wantResponse, zero, reply) ==
    do(c, c.client, name, request, wantResponse, zero, reply)

\* Caller.Poll: do with the long-poll client
Poll(c, name, request, wantResponse, zero, reply) ==
    do(c, c.pollClient, name, request, wantResponse, zero, reply)

\* a User or Message as far as it matters: its ID
Entity == [ID : 0..2]
ZeroEntity == [ID |-> 0]

\* the bot NewBot builds before it calls getMe
MakeBot(token) ==
    [Self |-> ZeroEntity, BackoffPeriod |-> DefaultBackoffPeriod,
     caller |-> NewCaller(EndpointURL, token)]

\* Bot.GetUpdates: the updates and the error of one getUpdates call
GetUpdates(b, r, reply) ==
    LET out == Poll(b.caller, "getUpdates", GetUpdatesRequest(r), TRUE, <<>>, reply)
    IN  [updates |-> out.response, err |-> out.err]

\* Bot.GetMe
GetMe(b, reply) ==
    LET out == Call(b.caller, "getMe", NilRequest, TRUE, ZeroEntity, reply)
    IN  [user |-> out.response, err |-> out.err, trips |-> out.trips]

\* NewBot: the *Bot and the error returned, and the methods called
NewBot(token, reply) ==
    LET bot == MakeBot(token)
        me == GetMe(bot, reply)
    IN  [isNil |-> FALSE, bot |-> [bot EXCEPT !.Self = me.user], err |-> me.err,
         called |-> <<"getMe">>, trips |-> me.trips]

\* ------------------------------------------------------------------------
\* State
\* ------------------------------------------------------------------------

VARIABLES
    ctx,        \* the context given to PollUpdates: "nil", "background", "cancel"
    cancelled,  \* the cancel function of ctx has been called
    req,        \* the *GetUpdates request value: Offset and Timeout
    retupd,     \* the update channel: sendq is the blocked sender's value
    reterr,     \* the error channel
    pc,         \* where the goroutine is
    upds,       \* the batch returned by the last call
    err,        \* the error returned by the last call
    i,          \* position of the range loop in upds
    sent,       \* the request as carried by the last call issued
    prevOffset, \* req.Offset when the last call returned
    returned,   \* all updates returned by successful calls, in call order
    delivered,  \* all updates received by the consumer, in order
    failures,   \* consecutive failed calls so far, counted up to MaxFailures
    trail,      \* what the goroutine did since the last call returned
    cancelPc,   \* where the goroutine was when cancel was called
    given,      \* the context and the request as passed to PollUpdates
    answer,     \* the reply to the last getUpdates call of the session
    rpc,        \* the last one-shot invocation of Caller.Call or Caller.Poll
    made,       \* what the last NewBot returned
    own,        \* the caller's own *GetUpdates value and the last Bot method
                \* the caller called beside the session
    typed,      \* the last Update.Type() call: the update and the result
    race        \* the sessions started on one request value

vars == <<ctx, cancelled, req, retupd, reterr, pc, upds, err, i, sent,
          prevOffset, returned, delivered, failures, trail, cancelPc,
          given, answer, rpc, made, own, typed, race>>

\* the variables of the one-shot calls
oneShot == <<rpc, made>>

\* request values the caller may pass
Offsets == {0, 2}
Timeouts == {-1, 0, 30}

\* the bot of the session
PollerBot == MakeBot(GoodToken)

\* no reply yet
NoReply == Reply(FALSE, FALSE, -1, FALSE, "", FALSE, <<>>)

\* no one-shot call yet
NoCall ==
    [c |-> NewCaller(EndpointURL, GoodToken), poll |-> FALSE, name |-> "",
     request |-> NilRequest, wantResponse |-> FALSE, reply |-> NoReply,
     out |-> Outcome(NoError, ZeroEntity, NoRequest, 0, 0, FALSE), calls |-> 0]

\* NewBot not called yet
NoBot ==
    [isNil |-> TRUE, bot |-> MakeBot(GoodToken), err |-> NoError, called |-> <<>>,
     trips |-> 0]

\* the caller's own request value, with no Bot method called beside the session
NoSide == [req |-> [Offset |-> 2, Timeout |-> 0], method |-> "", err |-> NoError]

\* the seven optional fields of Update, in the order of the struct
Slots ==
    <<"message", "edited_message", "channel_post", "edited_channel_post",
      "inline_query", "chosen_inline_result", "callback_query">>
\* an Update as far as Type() reads it: which of the pointers are not nil
Populated == [{Slots[k] : k \in 1..Len(Slots)} -> BOOLEAN]
\* Type() has not been called
NoType == [called |-> FALSE, u |-> [f \in {Slots[k] : k \in 1..Len(Slots)} |-> FALSE],
           kind |-> ""]

\* a goroutine of PollUpdates as far as the cursor goes: where it is, its
\* batch, its place in the batch, the cursor it read in the if, the cursor
\* it wrote last and all the cursors it wrote
Racer == [pc |-> "select", upds |-> <<>>, i |-> 0, seen |-> 0, last |-> <<>>, wrote |-> {}]
\* no session started on the request value: the number of goroutines, the
\* updates returned to them, the cursor when the first started, the goroutines
NoRace == [n |-> 0, count |-> 0, init |-> 0, w |-> [k \in {1, 2} |-> Racer]]

\* an unbuffered channel: at most one blocked sender, and how often it was closed
MakeChan == [sendq |-> <<>>, closed |-> 0]

Init ==
    /\ ctx \in {"nil", "background", "cancel"}
    /\ cancelled = FALSE
    /\ req \in [Offset : Offsets, Timeout : Timeouts]
    /\ retupd = MakeChan
    /\ reterr = MakeChan
    /\ pc = "start"
    /\ upds = <<>>
    /\ err = NoError
    /\ i = 0
    /\ sent = [Offset |-> 0, Timeout |-> 0]
    /\ prevOffset = 0
    /\ returned = <<>>
    /\ delivered = <<>>
    /\ failures = 0
    /\ trail = <<>>
    /\ cancelPc = "none"
    /\ given = [ctx |-> ctx, req |-> req]
    /\ answer = NoReply
    /\ rpc = NoCall
    /\ made = NoBot
    /\ own = NoSide
    /\ typed = NoType
    /\ race = NoRace

\* Done as if the goroutine waited on a channel that is never ready
DoneNever == FALSE

\* ctx.Done() is ready: only a cancellable context that was cancelled
Done == ctx = "cancel" /\ cancelled

\* ------------------------------------------------------------------------
\* The caller
\* ------------------------------------------------------------------------

\* the caller cancels the context
Cancel ==
    /\ ctx = "cancel"
    /\ ~cancelled
    /\ cancelled' = TRUE
    /\ cancelPc' = pc
    /\ UNCHANGED <<given, answer, rpc, made, own, typed, race>>
    /\ UNCHANGED <<ctx, req, retupd, reterr, pc, upds, err, i, sent, prevOffset,
                   returned, delivered, failures, trail>>

\* PollUpdates that replaces a negative timeout only
PollUpdatesKeepsZero ==
    /\ pc = "start"
    /\ ctx' = IF ctx = "nil" THEN "background" ELSE ctx
    /\ req' = IF req.Timeout < 0
              THEN [req EXCEPT !.Timeout = DefaultPollTimeout]
              ELSE req
    /\ retupd' = MakeChan
    /\ reterr' = MakeChan
    /\ pc' = "select"
    /\ UNCHANGED <<given, answer, rpc, made, own, typed, race>>
    /\ UNCHANGED <<cancelled, upds, err, i, sent, prevOffset, returned, delivered,
                   failures, trail, cancelPc>>

\* PollUpdates that replaces the nil context by a cancelled one
PollUpdatesNilIsCancelled ==
    /\ pc = "start"
    /\ ctx' = IF ctx = "nil" THEN "cancel" ELSE ctx
    /\ cancelled' = (ctx = "nil" \/ cancelled)
    /\ req' = IF req.Timeout <= 0
              THEN [req EXCEPT !.Timeout = DefaultPollTimeout]
              ELSE req
    /\ retupd' = MakeChan
    /\ reterr' = MakeChan
    /\ pc' = "select"
    /\ UNCHANGED <<given, answer, rpc, made, own, typed, race>>
    /\ UNCHANGED <<upds, err, i, sent, prevOffset, returned, delivered,
                   failures, trail, cancelPc>>

\* PollUpdates up to the go statement: nil context, timeout, channels
PollUpdates ==
    /\ pc = "start"
    /\ ctx' = IF ctx = "nil" THEN "background" ELSE ctx
    /\ req' = IF req.Timeout <= 0
              THEN [req EXCEPT !.Timeout = DefaultPollTimeout]
              ELSE req
    /\ retupd' = MakeChan
    /\ reterr' = MakeChan
    /\ pc' = "select"
    /\ UNCHANGED <<given, answer, rpc, made, own, typed, race>>
    /\ UNCHANGED <<cancelled, upds, err, i, sent, prevOffset, returned, delivered,
                   failures, trail, cancelPc>>

\* ------------------------------------------------------------------------
\* The goroutine of PollUpdates
\* ------------------------------------------------------------------------

\* b.BackoffPeriod as NewBot sets it
BackoffPeriod == PollerBot.BackoffPeriod

\* close(ch)
Close(ch) == [ch EXCEPT !.closed = @ + 1]

\* one entry of trail
Step(op, e, id, d) == [op |-> op, err |-> e, ID |-> id, dur |-> d]

\* NextOffset that stops at the largest int64
NextOffsetSaturates(offset, id) ==
    IF offset <= id
    THEN IF id < MaxInt64 THEN id + 1 ELSE MaxInt64
    ELSE offset

\* the cursor after the update with this id was sent
NextOffset(offset, id) == IF offset <= id THEN Int64(id + 1) ELSE offset

\* SelectDone closing the update channel only
SelectDoneOneChannel ==
    /\ pc = "select"
    /\ Done
    /\ retupd' = Close(retupd)
    /\ pc' = "stopped"
    /\ UNCHANGED <<given, answer, rpc, made, own, typed, race>>
    /\ UNCHANGED <<ctx, cancelled, req, reterr, upds, err, i, sent, prevOffset,
                   returned, delivered, failures, trail, cancelPc>>

\* select, case <-done: close both channels and return
SelectDone ==
    /\ pc = "select"
    /\ Done
    /\ retupd' = Close(retupd)
    /\ reterr' = Close(reterr)
    /\ pc' = "stopped"
    /\ UNCHANGED <<given, answer, rpc, made, own, typed, race>>
    /\ UNCHANGED <<ctx, cancelled, req, upds, err, i, sent, prevOffset, returned,
                   delivered, failures, trail, cancelPc>>

\* SelectDefault taken although done is ready
SelectDefaultUnguarded ==
    /\ pc = "select"
    /\ sent' = req
    /\ pc' = "GetUpdates"
    /\ UNCHANGED <<given, answer, rpc, made, own, typed, race>>
    /\ UNCHANGED <<ctx, cancelled, req, retupd, reterr, upds, err, i, prevOffset,
                   returned, delivered, failures, trail, cancelPc>>

\* SelectDefault with a retry limit
SelectDefaultLimited ==
    /\ pc = "select"
    /\ ~Done
    /\ failures < MaxFailures
    /\ sent' = req
    /\ pc' = "GetUpdates"
    /\ UNCHANGED <<given, answer, rpc, made, own, typed, race>>
    /\ UNCHANGED <<ctx, cancelled, req, retupd, reterr, upds, err, i, prevOffset,
                   returned, delivered, failures, trail, cancelPc>>

\* select, default: the getUpdates call is issued with the current request
SelectDefault ==
    /\ pc = "select"
    /\ ~Done
    /\ sent' = req
    /\ pc' = "GetUpdates"
    /\ UNCHANGED <<given, answer, rpc, made, own, typed, race>>
    /\ UNCHANGED <<ctx, cancelled, req, retupd, reterr, upds, err, i, prevOffset,
                   returned, delivered, failures, trail, cancelPc>>

\* ReturnError rewinding the offset to zero
ReturnErrorRewinds(r) ==
    /\ r.err # NoError
    /\ upds' = r.updates
    /\ err' = r.err
    /\ i' = 0
    /\ failures' = IF failures < MaxFailures THEN failures + 1 ELSE failures
    /\ reterr' = [reterr EXCEPT !.sendq = <<r.err>>]
    /\ req' = [req EXCEPT !.Offset = 0]
    /\ pc' = "reterr"
    /\ UNCHANGED <<retupd, returned>>

\* ReturnError on a buffered error channel: the send does not wait
ReturnErrorBuffered(r) ==
    /\ r.err # NoError
    /\ upds' = r.updates
    /\ err' = r.err
    /\ i' = 0
    /\ failures' = IF failures < MaxFailures THEN failures + 1 ELSE failures
    /\ reterr' = [reterr EXCEPT !.sendq = <<r.err>>]
    /\ pc' = "sleep"
    /\ UNCHANGED <<req, retupd, returned>>

\* the call returns an error: the goroutine blocks in reterr <- err
ReturnError(r) ==
    /\ r.err # NoError
    /\ upds' = r.updates
    /\ err' = r.err
    /\ i' = 0
    /\ failures' = IF failures < MaxFailures THEN failures + 1 ELSE failures
    /\ reterr' = [reterr EXCEPT !.sendq = <<r.err>>]
    /\ pc' = "reterr"
    /\ UNCHANGED <<req, retupd, returned>>

\* ReturnUpdates that backs off when the batch is empty
ReturnUpdatesSleepsOnEmpty(r) ==
    /\ r.err = NoError
    /\ Len(returned) + Len(r.updates) <= MaxReturned
    /\ upds' = r.updates
    /\ err' = r.err
    /\ i' = 1
    /\ failures' = 0
    /\ returned' = returned \o r.updates
    /\ IF Len(r.updates) >= 1
       THEN /\ retupd' = [retupd EXCEPT !.sendq = <<r.updates[1]>>]
            /\ pc' = "retupd"
       ELSE /\ retupd' = retupd
            /\ pc' = "sleep"
    /\ UNCHANGED <<req, reterr>>

\* the call returns a batch: the range loop starts; with an empty batch the
\* loop body never runs and the next iteration begins
ReturnUpdates(r) ==
    /\ r.err = NoError
    /\ Len(returned) + Len(r.updates) <= MaxReturned
    /\ upds' = r.updates
    /\ err' = r.err
    /\ i' = 1
    /\ failures' = 0
    /\ returned' = returned \o r.updates
    /\ IF Len(r.updates) >= 1
       THEN /\ retupd' = [retupd EXCEPT !.sendq = <<r.updates[1]>>]
            /\ pc' = "retupd"
       ELSE /\ retupd' = retupd
            /\ pc' = "select"
    /\ UNCHANGED <<req, reterr>>

\* b.GetUpdates(req) returns
GetUpdatesReturn ==
    /\ pc = "GetUpdates"
    /\ \E reply \in PollReplies :
          LET r == GetUpdates(PollerBot, req, reply)
          IN  /\ ReturnError(r) \/ ReturnUpdates(r)
              /\ answer' = reply
    /\ prevOffset' = req.Offset
    /\ trail' = <<>>
    /\ UNCHANGED <<ctx, cancelled, sent, delivered, cancelPc, given, rpc, made,
                   own, typed, race>>

\* RecvError after which the goroutine closes the channels and returns
RecvErrorThenReturn ==
    /\ reterr.sendq # <<>>
    /\ reterr' = Close([reterr EXCEPT !.sendq = <<>>])
    /\ retupd' = Close(retupd)
    /\ trail' = Append(trail, Step("reterr", Head(reterr.sendq), 0, 0))
    /\ pc' = "stopped"
    /\ UNCHANGED <<given, answer, rpc, made, own, typed, race>>
    /\ UNCHANGED <<ctx, cancelled, req, upds, err, i, sent, prevOffset,
                   returned, delivered, failures, cancelPc>>

\* the consumer receives from the error channel; the send completes
RecvError ==
    /\ reterr.sendq # <<>>
    /\ reterr' = [reterr EXCEPT !.sendq = <<>>]
    /\ trail' = Append(trail, Step("reterr", Head(reterr.sendq), 0, 0))
    /\ pc' = "sleep"
    /\ UNCHANGED <<given, answer, rpc, made, own, typed, race>>
    /\ UNCHANGED <<ctx, cancelled, req, retupd, upds, err, i, sent, prevOffset,
                   returned, delivered, failures, cancelPc>>

\* Sleep with a backoff period left at zero
SleepZero ==
    /\ pc = "sleep"
    /\ trail' = Append(trail, Step("sleep", NoError, 0, 0))
    /\ pc' = "select"
    /\ UNCHANGED <<given, answer, rpc, made, own, typed, race>>
    /\ UNCHANGED <<ctx, cancelled, req, retupd, reterr, upds, err, i, sent,
                   prevOffset, returned, delivered, failures, cancelPc>>

\* time.Sleep(b.BackoffPeriod); continue
Sleep ==
    /\ pc = "sleep"
    /\ trail' = Append(trail, Step("sleep", NoError, 0, BackoffPeriod))
    /\ pc' = "select"
    /\ UNCHANGED <<given, answer, rpc, made, own, typed, race>>
    /\ UNCHANGED <<ctx, cancelled, req, retupd, reterr, upds, err, i, sent,
                   prevOffset, returned, delivered, failures, cancelPc>>

\* RecvUpdate on a buffered channel: the send may complete with no receiver
RecvUpdateBuffered ==
    /\ retupd.sendq # <<>>
    /\ \/ /\ delivered' = Append(delivered, Head(retupd.sendq))
          /\ retupd' = [retupd EXCEPT !.sendq = <<>>]
          /\ trail' = Append(trail, Step("retupd", NoError, Head(retupd.sendq).ID, 0))
       \/ UNCHANGED <<delivered, retupd, trail>>
    /\ pc' = "offset"
    /\ UNCHANGED <<given, answer, rpc, made, own, typed, race>>
    /\ UNCHANGED <<ctx, cancelled, req, reterr, upds, err, i, sent, prevOffset,
                   returned, failures, cancelPc>>

\* the consumer receives from the update channel; the send completes
RecvUpdate ==
    /\ retupd.sendq # <<>>
    /\ delivered' = Append(delivered, Head(retupd.sendq))
    /\ retupd' = [retupd EXCEPT !.sendq = <<>>]
    /\ trail' = Append(trail, Step("retupd", NoError, Head(retupd.sendq).ID, 0))
    /\ pc' = "offset"
    /\ UNCHANGED <<given, answer, rpc, made, own, typed, race>>
    /\ UNCHANGED <<ctx, cancelled, req, reterr, upds, err, i, sent, prevOffset,
                   returned, failures, cancelPc>>

\* Advance leaving the range loop after the first update
AdvanceBreaks ==
    /\ pc = "offset"
    /\ req' = [req EXCEPT !.Offset = NextOffset(req.Offset, upds[i].ID)]
    /\ i' = i + 1
    /\ pc' = "select"
    /\ UNCHANGED <<given, answer, rpc, made, own, typed, race>>
    /\ UNCHANGED <<ctx, cancelled, retupd, reterr, upds, err, sent, prevOffset,
                   returned, delivered, failures, trail, cancelPc>>

\* Advance that looks at the done channel between two updates of a batch
AdvanceChecksDone ==
    /\ pc = "offset"
    /\ req' = [req EXCEPT !.Offset = NextOffset(req.Offset, upds[i].ID)]
    /\ i' = i + 1
    /\ IF Done
       THEN /\ retupd' = Close(retupd)
            /\ reterr' = Close(reterr)
            /\ pc' = "stopped"
       ELSE /\ reterr' = reterr
            /\ IF i + 1 <= Len(upds)
               THEN /\ retupd' = [retupd EXCEPT !.sendq = <<upds[i + 1]>>]
                    /\ pc' = "retupd"
               ELSE /\ retupd' = retupd
                    /\ pc' = "select"
    /\ UNCHANGED <<given, answer, rpc, made, own, typed, race>>
    /\ UNCHANGED <<ctx, cancelled, upds, err, sent, prevOffset, returned,
                   delivered, failures, trail, cancelPc>>

\* the offset update after a send, then the next round of the range loop:
\* the next update is sent, or the batch is finished
Advance ==
    /\ pc = "offset"
    /\ req' = [req EXCEPT !.Offset = NextOffset(req.Offset, upds[i].ID)]
    /\ i' = i + 1
    /\ IF i + 1 <= Len(upds)
       THEN /\ retupd' = [retupd EXCEPT !.sendq = <<upds[i + 1]>>]
            /\ pc' = "retupd"
       ELSE /\ retupd' = retupd
            /\ pc' = "select"
    /\ UNCHANGED <<given, answer, rpc, made, own, typed, race>>
    /\ UNCHANGED <<ctx, cancelled, reterr, upds, err, sent, prevOffset, returned,
                   delivered, failures, trail, cancelPc>>

\* ------------------------------------------------------------------------
\* Specifications
\* ------------------------------------------------------------------------

Next ==
    \/ Cancel
    \/ PollUpdates
    \/ SelectDone
    \/ SelectDefault
    \/ GetUpdatesReturn
    \/ RecvError
    \/ Sleep
    \/ RecvUpdate
    \/ Advance

Spec == Init /\ [][Next]_vars

\* ------------------------------------------------------------------------
\* One-shot calls
\* ------------------------------------------------------------------------

\* HTTP statuses the remote endpoint answers with
StatusCodes == {200, 401}

\* request values given to Caller.Call and Caller.Poll
Requests ==
    {NilRequest, NilPointer}
    \cup {GetUpdatesRequest(r) : r \in [Offset : {0, 2}, Timeout : {0, 30}]}
    \cup {SendLocation(1, nan) : nan \in BOOLEAN}

\* replies to a one-shot call; a reply with Ok false may still carry a payload
CallReplies ==
    {Reply(FALSE, FALSE, 0, FALSE, "", FALSE, ZeroEntity)}
    \cup {Reply(TRUE, FALSE, code, FALSE, "", FALSE, ZeroEntity) : code \in StatusCodes}
    \cup {Reply(TRUE, TRUE, code, ok, d, decodes, [ID |-> 1]) :
              code \in StatusCodes, ok \in BOOLEAN, d \in {"", "Unauthorized"},
              decodes \in BOOLEAN}

\* the record of one invocation
Invocation(c, poll, name, request, wantResponse, reply, out) ==
    [c |-> c, poll |-> poll, name |-> name, request |-> request,
     wantResponse |-> wantResponse, reply |-> reply, out |-> out, calls |-> 1]

\* no one-shot operation has been recorded yet
Idle == rpc = NoCall /\ made = NoBot

\* somebody invokes Caller.Call
CallInvoked ==
    /\ Idle
    /\ \E token \in Tokens, name \in MethodNames, request \in Requests,
          wantResponse \in BOOLEAN, reply \in CallReplies :
          LET c == NewCaller(EndpointURL, token)
          IN  rpc' = Invocation(c, FALSE, name, request, wantResponse, reply,
                                Call(c, name, request, wantResponse, ZeroEntity, reply))
    /\ UNCHANGED <<ctx, cancelled, req, retupd, reterr, pc, upds, err, i, sent,
                   prevOffset, returned, delivered, failures, trail, cancelPc,
                   given, answer, made, own, typed, race>>

\* somebody invokes Caller.Poll
PollInvoked ==
    /\ Idle
    /\ \E token \in Tokens, name \in MethodNames, request \in Requests,
          wantResponse \in BOOLEAN, reply \in CallReplies :
          LET c == NewCaller(EndpointURL, token)
          IN  rpc' = Invocation(c, TRUE, name, request, wantResponse, reply,
                                Poll(c, name, request, wantResponse, ZeroEntity, reply))
    /\ UNCHANGED <<ctx, cancelled, req, retupd, reterr, pc, upds, err, i, sent,
                   prevOffset, returned, delivered, failures, trail, cancelPc,
                   given, answer, made, own, typed, race>>

\* somebody calls NewBot
NewBotCalled ==
    /\ Idle
    /\ \E token \in Tokens, reply \in CallReplies :
          made' = NewBot(token, reply)
    /\ UNCHANGED <<ctx, cancelled, req, retupd, reterr, pc, upds, err, i, sent,
                   prevOffset, returned, delivered, failures, trail, cancelPc,
                   given, answer, rpc, own, typed, race>>

NextCall ==
    \/ CallInvoked
    \/ PollInvoked
    \/ NewBotCalled

\* one one-shot call or NewBot, with no session running
InitCall == Init /\ ctx = "background" /\ req = [Offset |-> 0, Timeout |-> 0]

SpecCall == InitCall /\ [][NextCall]_vars

\* ------------------------------------------------------------------------
\* Bot methods called while a session runs
\* ------------------------------------------------------------------------

\* Bot.Send: the message and the error
Send(b, request, reply) ==
    LET out == Call(b.caller, "sendLocation", request, TRUE, ZeroEntity, reply)
    IN  [msg |-> out.response, err |-> out.err]

\* replies to the calls made beside the session
SendReplies ==
    {Reply(FALSE, FALSE, 0, FALSE, "", FALSE, ZeroEntity),
     Reply(TRUE, TRUE, 401, FALSE, "Unauthorized", FALSE, ZeroEntity),
     Reply(TRUE, TRUE, 200, TRUE, "", TRUE, [ID |-> 1])}
GetUpdatesReplies ==
    {Reply(FALSE, FALSE, 0, FALSE, "", FALSE, <<>>),
     Reply(TRUE, TRUE, 409, FALSE, "Conflict", FALSE, <<>>),
     Reply(TRUE, TRUE, 200, TRUE, "", TRUE, <<[ID |-> 1]>>)}

\* the caller calls Bot.Send
SendCalled ==
    /\ \E nan \in BOOLEAN, reply \in SendReplies :
          own' = [own EXCEPT !.method = "Send",
                             !.err = Send(PollerBot, SendLocation(1, nan), reply).err]
    /\ UNCHANGED <<ctx, cancelled, req, retupd, reterr, pc, upds, err, i, sent,
                   prevOffset, returned, delivered, failures, trail, cancelPc,
                   given, answer, rpc, made, typed, race>>

\* GetUpdatesCalled where GetUpdates fills in the default timeout
GetUpdatesCalledSetsTimeout ==
    /\ \E reply \in GetUpdatesReplies :
          own' = [own EXCEPT !.method = "GetUpdates",
                             !.err = GetUpdates(PollerBot, own.req, reply).err,
                             !.req.Timeout = DefaultPollTimeout]
    /\ UNCHANGED <<ctx, cancelled, req, retupd, reterr, pc, upds, err, i, sent,
                   prevOffset, returned, delivered, failures, trail, cancelPc,
                   given, answer, rpc, made, typed, race>>

\* the caller calls Bot.GetUpdates with its own request value
GetUpdatesCalled ==
    /\ \E reply \in GetUpdatesReplies :
          own' = [own EXCEPT !.method = "GetUpdates",
                             !.err = GetUpdates(PollerBot, own.req, reply).err]
    /\ UNCHANGED <<ctx, cancelled, req, retupd, reterr, pc, upds, err, i, sent,
                   prevOffset, returned, delivered, failures, trail, cancelPc,
                   given, answer, rpc, made, typed, race>>

NextShared ==
    \/ Next
    \/ SendCalled
    \/ GetUpdatesCalled

\* one cancellable session, and the caller calling Bot methods beside it
InitShared == Init /\ ctx = "cancel" /\ req = [Offset |-> 0, Timeout |-> 0]

SpecShared == InitShared /\ [][NextShared]_vars

\* ------------------------------------------------------------------------
\* Sessions started on one request value
\* ------------------------------------------------------------------------
\* Only the cursor is followed here: the sends of the updates, the errors and
\* the cancellation are those of the single session above.  The goroutines
\* share req with no synchronisation, so a read of req.Offset may return the
\* value the reader itself wrote last (the initial value if it wrote none) or
\* any value the other goroutine has written.

\* the other goroutine
Other(w) == 3 - w

\* the cursor values the read of req.Offset by goroutine w may return
Visible(w) ==
    (IF race.w[w].last = <<>> THEN {race.init} ELSE {race.w[w].last[1]})
    \cup (IF race.n = 2 THEN race.w[Other(w)].wrote ELSE {})

\* PollUpdates is called with the request value: one more goroutine
SessionStarted ==
    /\ race.n < 2
    /\ race' = [race EXCEPT !.n = @ + 1, !.init = IF race.n = 0 THEN req.Offset ELSE @]
    /\ UNCHANGED <<ctx, cancelled, req, retupd, reterr, pc, upds, err, i, sent,
                   prevOffset, returned, delivered, failures, trail, cancelPc,
                   given, answer, rpc, made, own, typed>>

\* the getUpdates call of goroutine w returns a batch; its first update is sent
SessionGetUpdates ==
    /\ \E w \in 1..race.n, batch \in Batches :
          /\ race.w[w].pc = "select"
          /\ Len(batch) >= 1
          /\ race.count + Len(batch) <= MaxReturned
          /\ race' = [race EXCEPT !.count = @ + Len(batch),
                                  !.w[w].pc = "if",
                                  !.w[w].upds = batch,
                                  !.w[w].i = 1]
    /\ UNCHANGED <<ctx, cancelled, req, retupd, reterr, pc, upds, err, i, sent,
                   prevOffset, returned, delivered, failures, trail, cancelPc,
                   given, answer, rpc, made, own, typed>>

\* where goroutine w goes after update i of its batch
AfterUpdate(w) ==
    IF race.w[w].i + 1 <= Len(race.w[w].upds) THEN "if" ELSE "select"

\* SessionIf with the test left out: the assignment is always made
SessionIfAlwaysTrue(w, offset) ==
    /\ race.w[w].pc = "if"
    /\ race' = [race EXCEPT !.w[w].seen = offset, !.w[w].pc = "assign"]

\* goroutine w evaluates req.Offset <= upd.ID, reading offset
SessionIf(w, offset) ==
    /\ race.w[w].pc = "if"
    /\ IF offset <= race.w[w].upds[race.w[w].i].ID
       THEN race' = [race EXCEPT !.w[w].seen = offset, !.w[w].pc = "assign"]
       ELSE race' = [race EXCEPT !.w[w].seen = offset,
                                 !.w[w].pc = AfterUpdate(w),
                                 !.w[w].i = @ + 1]

\* a goroutine reads the cursor and tests it
SessionTest ==
    /\ \E w \in 1..race.n : \E offset \in Visible(w) : SessionIf(w, offset)
    /\ UNCHANGED <<ctx, cancelled, req, retupd, reterr, pc, upds, err, i, sent,
                   prevOffset, returned, delivered, failures, trail, cancelPc,
                   given, answer, rpc, made, own, typed>>

\* a goroutine executes req.Offset = upd.ID + 1
SessionAssign ==
    /\ \E w \in 1..race.n :
          /\ race.w[w].pc = "assign"
          /\ LET offset == Int64(race.w[w].upds[race.w[w].i].ID + 1)
             IN  /\ req' = [req EXCEPT !.Offset = offset]
                 /\ race' = [race EXCEPT !.w[w].pc = AfterUpdate(w),
                                         !.w[w].i = @ + 1,
                                         !.w[w].last = <<offset>>,
                                         !.w[w].wrote = @ \cup {offset}]
    /\ UNCHANGED <<ctx, cancelled, retupd, reterr, pc, upds, err, i, sent,
                   prevOffset, returned, delivered, failures, trail, cancelPc,
                   given, answer, rpc, made, own, typed>>

NextRace ==
    \/ SessionStarted
    \/ SessionGetUpdates
    \/ SessionTest
    \/ SessionAssign

\* up to two sessions on one request value whose cursor starts at zero
SpecRace == InitCall /\ [][NextRace]_vars

\* ------------------------------------------------------------------------
\* Update.Type
\* ------------------------------------------------------------------------

\* the UpdateType constants
MessageUpdate == "message"
EditedMessageUpdate == "edited_message"
ChannelPostUpdate == "channel_post"
EditedChannelPostUpdate == "edited_channel_post"
InlineQueryUpdate == "inline_query"
ChosenInlineResultUpdate == "chosen_inline_result"
CallbackQueryUpdate == "callback_query"

\* Type with the first two tests in the other order
TypeEditedFirst(u) ==
    IF u.edited_message THEN EditedMessageUpdate
    ELSE IF u.message THEN MessageUpdate
    ELSE IF u.channel_post THEN ChannelPostUpdate
    ELSE IF u.edited_channel_post THEN EditedChannelPostUpdate
    ELSE IF u.inline_query THEN InlineQueryUpdate
    ELSE IF u.chosen_inline_result THEN ChosenInlineResultUpdate
    ELSE IF u.callback_query THEN CallbackQueryUpdate
    ELSE ""

\* Update.Type: u.X is `u.X != nil`
Type(u) ==
    IF u.message THEN MessageUpdate
    ELSE IF u.edited_message THEN EditedMessageUpdate
    ELSE IF u.channel_post THEN ChannelPostUpdate
    ELSE IF u.edited_channel_post THEN EditedChannelPostUpdate
    ELSE IF u.inline_query THEN InlineQueryUpdate
    ELSE IF u.chosen_inline_result THEN ChosenInlineResultUpdate
    ELSE IF u.callback_query THEN CallbackQueryUpdate
    ELSE ""

\* somebody calls Type on an update
TypeCalled ==
    /\ \E u \in Populated : typed' = [called |-> TRUE, u |-> u, kind |-> Type(u)]
    /\ UNCHANGED <<ctx, cancelled, req, retupd, reterr, pc, upds, err, i, sent,
                   prevOffset, returned, delivered, failures, trail, cancelPc,
                   given, answer, rpc, made, own, race>>

NextType == TypeCalled

\* calls of Type, with no session running
SpecType == InitCall /\ [][NextType]_vars

\* The request's timeout plays no part in what is scheduled: the sessions
\* checked for progress leave it unset.
InitFair == Init /\ req.Timeout = 0

\* The goroutine is scheduled whenever it can run and every remote call
\* returns.  Nothing is assumed of the consumer: a send waits for a receiver.
SpecFair ==
    /\ InitFair
    /\ [][Next]_vars
    /\ WF_vars(SelectDone)
    /\ WF_vars(SelectDefault)
    /\ WF_vars(GetUpdatesReturn)
    /\ WF_vars(Sleep)
    /\ WF_vars(Advance)

\* ------------------------------------------------------------------------
\* Properties
\* ------------------------------------------------------------------------

Max(a, b) == IF a >= b THEN a ELSE b

\* the largest ID of a non-empty batch
MaxID(batch) == CHOOSE m \in {batch[k].ID : k \in 1..Len(batch)} :
                    \A k \in 1..Len(batch) : batch[k].ID <= m

\* the goroutine has finished a non-empty batch and is back at the select
BatchDone == pc = "select" /\ err = NoError /\ Len(upds) >= 1

\* the goroutine has returned
Stopped == pc = "stopped"

\* the last call failed and the goroutine has not issued another one
AfterFailure == err # NoError /\ pc \in {"reterr", "sleep", "select", "stopped"}

\* a getUpdates call is issued in this step
CallIssued == pc # "GetUpdates" /\ pc' = "GetUpdates"

\* C1: after a whole non-empty batch has been emitted the cursor equals
\* max(cursor before the batch, largest id of the batch + 1).
C1_CursorAfterBatch ==
    BatchDone => req.Offset = Max(prevOffset, MaxID(upds) + 1)

\* C2: in every step the new cursor is at least the old one.
C2_CursorNeverDecreases == [][req'.Offset >= req.Offset]_vars

\* the updates of the current batch the consumer has not received yet
Pending ==
    IF pc = "retupd" THEN SubSeq(upds, i, Len(upds))
    ELSE IF pc = "offset" THEN SubSeq(upds, i + 1, Len(upds))
    ELSE <<>>

\* C3: what the consumer has received, followed by the part of the current
\* batch still to be emitted, is the concatenation in call order of the
\* batches returned by the successful calls: nothing dropped, nothing twice,
\* nothing out of order.
C3_DeliveredIsReturned == delivered \o Pending = returned

C3_Witness ==
    /\ BatchDone
    /\ Len(upds) = 1
    /\ Len(delivered) = 3
    /\ delivered[1].ID = 2
    /\ delivered[2].ID = 1

\* C4: both channels are closed together, once, when the goroutine returns
\* on cancellation; after that nothing is sent, no call is issued and no
\* state of the session changes.
C4_StoppedIsTerminal ==
    /\ [](/\ retupd.closed = reterr.closed
          /\ retupd.closed <= 1
          /\ Stopped <=> retupd.closed = 1
          /\ Stopped => Done /\ retupd.sendq = <<>> /\ reterr.sendq = <<>>)
    /\ [][Stopped => UNCHANGED <<pc, req, retupd, reterr, sent, returned,
                                 delivered, trail>>]_vars

C4_Witness == Stopped /\ Len(delivered) >= 1 /\ retupd.closed = 1 /\ reterr.closed = 1

\* every value sent on either channel is eventually received
ConsumerReceives ==
    /\ []<>(retupd.sendq = <<>>)
    /\ []<>(reterr.sendq = <<>>)

\* C5 as stated: once a started session is cancelled the goroutine
\* eventually stops with both channels closed.
C5_CancelStops ==
    (cancelled /\ pc # "start") ~> (Stopped /\ retupd.closed = 1 /\ reterr.closed = 1)

\* C5 amended: the same, provided the consumer keeps receiving.
C5_CancelStopsIfReceived == ConsumerReceives => C5_CancelStops

C5_Witness == Stopped /\ cancelPc = "retupd" /\ Len(delivered) = 2

\* where the goroutine is when no call is in flight
Quiet == {"start", "select", "retupd", "offset", "reterr", "sleep"}

\* C6: after a cancellation requested while no call was in flight no call
\* is issued, and the next select closes both channels and returns.
C6_CancelWhileQuiet ==
    [][(cancelled /\ cancelPc \in Quiet) =>
          /\ ~CallIssued
          /\ pc = "select" => /\ pc' = "stopped"
                              /\ retupd'.closed = 1
                              /\ reterr'.closed = 1]_vars

C6_Witness == Stopped /\ cancelPc = "sleep"

\* C7: while cancellation has not been raised the goroutine has not
\* returned and neither channel is closed, whatever calls have failed.
C7_OnlyCancelStops ==
    ~Done => ~Stopped /\ retupd.closed = 0 /\ reterr.closed = 0

C7_Witness ==
    /\ ctx = "cancel"
    /\ ~cancelled
    /\ failures = MaxFailures
    /\ pc = "GetUpdates"

\* C8: a failed call leaves the cursor as the call carried it, and the call
\* issued after it carries the same cursor.
C8_FailureKeepsCursor ==
    /\ [](AfterFailure => req.Offset = sent.Offset)
    /\ [][(CallIssued /\ err # NoError) => sent'.Offset = sent.Offset]_vars

C8_Witness ==
    /\ pc = "GetUpdates"
    /\ err # NoError
    /\ sent.Offset = 3
    /\ Len(delivered) >= 1

\* C9: between a failed call and the next call the goroutine does exactly
\* this: it hands the error of that call to a consumer, then sleeps once for
\* the backoff period; it sends no update.
C9_ErrorThenBackoff ==
    [][(CallIssued /\ err # NoError) =>
          trail = <<Step("reterr", err, 0, 0),
                    Step("sleep", NoError, 0, DefaultBackoffPeriod)>>]_vars

C9_Witness ==
    /\ pc = "GetUpdates"
    /\ err = Error(409, "undefined error")
    /\ failures = 2
    /\ Len(trail) = 2

\* C10: in a session that is never cancelled and whose consumer keeps
\* receiving, every failed call is followed by another call, however many
\* calls have failed in a row.
C10_RetriesForever ==
    (ConsumerReceives /\ []~cancelled) => ((pc = "reterr") ~> (pc = "GetUpdates"))

C10_Witness ==
    /\ pc = "GetUpdates"
    /\ failures = MaxFailures
    /\ err = NetError

\* the long-poll timeout PollUpdates is to use for the request it was given
EffectiveTimeout ==
    IF given.req.Timeout <= 0 THEN DefaultPollTimeout ELSE given.req.Timeout

\* C11: every getUpdates call of the session carries the timeout 60 when the
\* configured timeout is unset or not positive, and the configured timeout
\* otherwise: in the request value and in the JSON body sent.
C11_EffectiveTimeout ==
    pc = "GetUpdates" =>
        /\ sent.Timeout = EffectiveTimeout
        /\ <<"timeout", EffectiveTimeout>> \in Marshal(GetUpdatesRequest(sent)).buf

C11_Witness ==
    /\ pc = "GetUpdates"
    /\ given.req.Timeout = -1
    /\ sent.Timeout = 60
    /\ Len(delivered) >= 1

\* what the consumer sees of a batch that was emitted whole and in order
EmittedInOrder(batch) ==
    [k \in 1..Len(batch) |-> Step("retupd", NoError, batch[k].ID, 0)]

\* what follows a failed call: the error is received, then the backoff is slept
ErrorThenBackoff(e) ==
    <<Step("reterr", e, 0, 0), Step("sleep", NoError, 0, BackoffPeriod)>>

\* C12: cancellation takes effect at the top of an iteration only. The
\* goroutine stops from the select statement and from nowhere else; once the
\* context is cancelled no new call is issued; and when the goroutine has
\* stopped, the last call it made was handled to the end: every update of its
\* batch was received in order, or its error was received and the backoff
\* slept.
C12_CancelAtLoopTop ==
    /\ [][(pc # "stopped" /\ pc' = "stopped") => (pc = "select" /\ cancelled)]_vars
    /\ [][cancelled => ~CallIssued]_vars
    /\ [](Stopped =>
            /\ delivered = returned
            /\ err = NoError => trail = EmittedInOrder(upds)
            /\ err # NoError => trail = ErrorThenBackoff(err))

C12_Witness ==
    /\ Stopped
    /\ cancelPc = "GetUpdates"
    /\ Len(upds) = 2
    /\ trail = EmittedInOrder(upds)

\* how many updates of the current batch the consumer has received
ReceivedOfBatch == Len(delivered) - (Len(returned) - Len(upds))

\* C13: backpressure. The update channel holds at most one update nobody has
\* received; update i of a batch is sent only when the consumer has received
\* the i-1 updates before it; a call is in flight only when every update
\* returned so far was received; and while an update waits for a receiver the
\* goroutine does nothing: no call is issued and the only thing that moves it
\* on is the consumer receiving that update.
C13_Backpressure ==
    /\ [](Len(retupd.sendq) <= 1)
    /\ [](pc = "retupd" =>
            /\ retupd.sendq = <<upds[i]>>
            /\ ReceivedOfBatch = i - 1)
    /\ [](pc = "GetUpdates" => retupd.sendq = <<>> /\ delivered = returned)
    /\ [][retupd.sendq # <<>> => ~CallIssued]_vars
    /\ [][(retupd.sendq # <<>> /\ pc' # pc) =>
            delivered' = Append(delivered, Head(retupd.sendq))]_vars

C13_Witness ==
    /\ pc = "retupd"
    /\ i = 2
    /\ Len(returned) = 3
    /\ Len(delivered) = 2
    /\ retupd.sendq = <<upds[2]>>

\* the three ways a getUpdates call fails once the request is on the wire
TransportFailure(r) == ~r.net \/ ~r.parses
RemoteFailure(r) == r.net /\ r.parses /\ ~r.Ok
DecodeFailure(r) == r.net /\ r.parses /\ r.Ok /\ ~r.Result.decodes
\* the last getUpdates call was answered and has returned
Answered == answer # NoReply /\ pc # "GetUpdates"

\* C14: a getUpdates call whose payload does not decode is handled as a call
\* the remote end declared failed and as a call that failed in transport. In
\* all three cases the call returns an error (the decode error when the
\* payload did not decode), that error is what is sent on the error channel,
\* no update of the call is sent even if part of the payload was decoded, the
\* cursor stays where it was, the backoff is slept once after the error was
\* received, and the next call carries the request of the failed one.
C14_DecodeFailureAsFailure ==
    /\ [](Answered /\ DecodeFailure(answer) => err = UnmarshalError)
    /\ [](Answered /\ (TransportFailure(answer) \/ RemoteFailure(answer)
                        \/ DecodeFailure(answer)) =>
            /\ err # NoError
            /\ req.Offset = prevOffset
            /\ retupd.sendq = <<>>
            /\ pc \in {"reterr", "sleep", "select", "stopped"}
            /\ pc = "reterr" => reterr.sendq = <<err>> /\ trail = <<>>
            /\ pc = "sleep" => reterr.sendq = <<>> /\ trail = <<Step("reterr", err, 0, 0)>>
            /\ pc \in {"select", "stopped"} => trail = ErrorThenBackoff(err))
    /\ [][(Answered /\ err # NoError /\ CallIssued) => sent' = sent]_vars

C14_Witness ==
    /\ pc = "GetUpdates"
    /\ DecodeFailure(answer)
    /\ err = UnmarshalError
    /\ upds = <<[ID |-> 1]>>
    /\ trail = ErrorThenBackoff(UnmarshalError)
    /\ delivered = <<>>
    /\ sent.Offset = 0

\* the last one-shot invocation got as far as reading the response envelope
EnvelopeRead == rpc.calls = 1 /\ rpc.out.trips = 1 /\ rpc.reply.net /\ rpc.reply.parses

\* C15: a call whose response envelope has ok false returns an *Error whose
\* HTTPCode is the status of the HTTP response and whose Description is the
\* description of the envelope, or "undefined error" when that is empty.
C15_RemoteError ==
    (EnvelopeRead /\ ~rpc.reply.Ok) =>
        /\ rpc.out.err.kind = "Error"
        /\ rpc.out.err.HTTPCode = rpc.reply.StatusCode
        /\ rpc.reply.Description # "" =>
              rpc.out.err.Description = rpc.reply.Description
        /\ rpc.reply.Description = "" =>
              rpc.out.err.Description = "undefined error"

C15_Witness ==
    /\ EnvelopeRead
    /\ ~rpc.reply.Ok
    /\ rpc.reply.StatusCode = 401
    /\ rpc.reply.Description = ""
    /\ rpc.out.err = Error(401, "undefined error")

\* C16: the envelope decides what happens to the payload. With ok false the
\* payload is not unmarshalled and the response value is as it was; with ok
\* true and a response value given, the payload is unmarshalled into it and
\* the call succeeds exactly when that works, failing with the decode error
\* otherwise; with ok true and no response value the call succeeds and
\* nothing is unmarshalled.
C16_EnvelopeDecidesDecoding ==
    EnvelopeRead =>
        /\ ~rpc.reply.Ok =>
              /\ ~rpc.out.unmarshalled
              /\ rpc.out.response = ZeroEntity
              /\ rpc.out.err # NoError
        /\ (rpc.reply.Ok /\ rpc.wantResponse) =>
              /\ rpc.out.unmarshalled
              /\ rpc.out.err = NoError <=> rpc.reply.Result.decodes
              /\ rpc.reply.Result.decodes => rpc.out.response = rpc.reply.Result.value
              /\ ~rpc.reply.Result.decodes => rpc.out.err = UnmarshalError
        /\ (rpc.reply.Ok /\ ~rpc.wantResponse) =>
              /\ ~rpc.out.unmarshalled
              /\ rpc.out.response = ZeroEntity
              /\ rpc.out.err = NoError

C16_Witness ==
    /\ EnvelopeRead
    /\ ~rpc.reply.Ok
    /\ rpc.wantResponse
    /\ rpc.reply.Result.decodes
    /\ rpc.reply.Result.value = [ID |-> 1]
    /\ rpc.out.response = ZeroEntity

\* the last one-shot invocation returned before an HTTP request existed:
\* json.Marshal failed, or http.NewRequest rejected the URL
FailedBeforeRequest ==
    \/ rpc.request # NilRequest /\ Marshal(rpc.request).err # NoError
    \/ ~URLParses(rpc.c.prefix \o rpc.name)

\* C17 as stated: every invocation of Call or Poll performs exactly one
\* round trip, whatever its outcome.
C17_ExactlyOneRoundTrip ==
    rpc.calls = 1 => rpc.out.trips = 1

\* C17, amended: an invocation of Call or Poll never performs a second round
\* trip. It performs exactly one, whatever the reply, unless the request value
\* cannot be serialized or the HTTP request cannot be built: then it returns
\* that error and performs none.
C17_AtMostOneRoundTrip ==
    rpc.calls = 1 =>
        /\ rpc.out.trips <= 1
        /\ FailedBeforeRequest =>
              /\ rpc.out.trips = 0
              /\ rpc.out.err \in {MarshalError, RequestError}
              /\ rpc.out.http = NoRequest
        /\ ~FailedBeforeRequest =>
              /\ rpc.out.trips = 1
              /\ ~rpc.reply.net => rpc.out.err = NetError
              /\ (rpc.reply.net /\ ~rpc.reply.parses) => rpc.out.err = EnvelopeError

C17_Witness ==
    /\ rpc.calls = 1
    /\ rpc.request = SendLocation(1, TRUE)
    /\ rpc.out.err = MarshalError
    /\ rpc.out.trips = 0

\* C18: the payload decides the shape of the HTTP request. With the nil
\* request the method is GET, there is no body and no Content-Type header;
\* with any other request value (a nil pointer included, whose JSON text is
\* null) the method is POST, the body is the JSON text of the value and
\* Content-Type is application/json. The URL is endpoint, token, "/" and the
\* method name, in that order.
C18_RequestShape ==
    (rpc.calls = 1 /\ rpc.out.http # NoRequest) =>
        /\ rpc.request = NilRequest =>
              /\ rpc.out.http.method = "GET"
              /\ ~rpc.out.http.hasBody
              /\ rpc.out.http.contentType = ""
        /\ rpc.request # NilRequest =>
              /\ rpc.out.http.method = "POST"
              /\ rpc.out.http.hasBody
              /\ rpc.out.http.body = Marshal(rpc.request).buf
              /\ rpc.out.http.contentType = "application/json"
        /\ \E token \in Tokens :
              /\ rpc.c = NewCaller(EndpointURL, token)
              /\ rpc.out.http.url = EndpointURL \o token \o "/" \o rpc.name

C18_Witness ==
    /\ rpc.calls = 1
    /\ rpc.request = GetUpdatesRequest([Offset |-> 2, Timeout |-> 30])
    /\ rpc.name = "getUpdates"
    /\ rpc.out.http =
          HTTPRequest("POST", "https://api.telegram.org/bot123:abc/getUpdates", TRUE,
                      {<<"offset", 2>>, <<"timeout", 30>>}, "application/json")

\* C19: NewBot calls getMe once and fails exactly when that call fails. On
\* failure the caller gets the error and no client; on success the client's
\* Self is the decoded result and its BackoffPeriod is five seconds.
C19_NewBotVerifies ==
    made # NoBot =>
        /\ made.called = <<"getMe">>
        /\ made.trips <= 1
        /\ made.err # NoError => made.isNil
        /\ made.err = NoError =>
              /\ ~made.isNil
              /\ made.trips = 1
              /\ made.bot.Self = [ID |-> 1]
              /\ made.bot.BackoffPeriod = 5

\* C20: a session started with a nil context runs as one started with
\* context.Background(): the goroutine works on the background context,
\* nothing cancels it, it never stops and neither channel is ever closed; and
\* once it is started and as long as the consumer keeps receiving, one call
\* follows another forever.
C20_NilContextIsBackground ==
    /\ [](given.ctx = "nil" =>
            /\ pc # "start" => ctx = "background"
            /\ ~Done
            /\ ~Stopped
            /\ retupd.closed = 0
            /\ reterr.closed = 0)
    /\ (ConsumerReceives /\ given.ctx = "nil") =>
            ((pc # "start" /\ pc # "GetUpdates") ~> (pc = "GetUpdates"))

C20_Witness ==
    /\ given.ctx = "nil"
    /\ ctx = "background"
    /\ pc = "GetUpdates"
    /\ Len(delivered) = 2
    /\ failures = 1

\* the updates of the current batch whose cursor update has been done
Processed == SubSeq(upds, 1, i - 1)

\* C23: the cursor is advanced update by update, right after the update was
\* received and before the next one is sent: an id at or above the cursor
\* makes the cursor id + 1, an id below it leaves the cursor alone. So once
\* the first k updates of a batch are processed the cursor is
\* max(cursor before the batch, largest of the k ids + 1).
C23_CursorPerEvent ==
    /\ [][(pc = "offset" /\ pc' # "offset") =>
            req'.Offset = IF upds[i].ID >= req.Offset
                          THEN upds[i].ID + 1
                          ELSE req.Offset]_vars
    /\ []((err = NoError /\ i >= 2) =>
            req.Offset = Max(prevOffset, MaxID(Processed) + 1))

\* the steps of a trail that are backoff sleeps
Sleeps(t) == {k \in 1..Len(t) : t[k].op = "sleep"}
\* the goroutine sleeps in this step
Slept == Len(trail') = Len(trail) + 1 /\ trail'[Len(trail')].op = "sleep"

\* C24: the backoff is slept after a failed call only. A step that sleeps
\* follows a call that returned an error; after a call that returned a batch
\* the goroutine is back at the select without having slept; and a call that
\* returned the empty batch goes to the select at once with nothing sent on
\* either channel and the cursor as it was.
C24_BackoffOnlyAfterFailure ==
    /\ [][Slept => (err # NoError /\ pc = "sleep" /\ trail = <<Step("reterr", err, 0, 0)>>)]_vars
    /\ [](err = NoError => Sleeps(trail) = {} /\ pc # "sleep" /\ reterr.sendq = <<>>)
    /\ [][(pc = "GetUpdates" /\ pc' # "GetUpdates" /\ err' = NoError /\ upds' = <<>>) =>
            /\ pc' = "select"
            /\ trail' = <<>>
            /\ retupd'.sendq = <<>>
            /\ reterr'.sendq = <<>>
            /\ delivered' = delivered
            /\ req' = req]_vars
    /\ [][(pc = "select" /\ CallIssued /\ err = NoError /\ Len(upds) >= 1) =>
            trail = EmittedInOrder(upds)]_vars

C24_Witness ==
    /\ pc = "GetUpdates"
    /\ err = NoError
    /\ upds = <<>>
    /\ trail = <<>>
    /\ Len(delivered) = 2
    /\ req.Offset = 3

\* C25: the cursor carried by every call of a session is max(initial cursor,
\* 1 + largest id received so far in the session), and so is greater than
\* the id of every update received so far.
C25_Watermark ==
    pc = "GetUpdates" =>
        /\ delivered = <<>> => sent.Offset = given.req.Offset
        /\ delivered # <<>> =>
              sent.Offset = Max(given.req.Offset, 1 + MaxID(delivered))
        /\ \A k \in 1..Len(delivered) : sent.Offset > delivered[k].ID

\* an error, an update waits for a receiver
ErrorWaits == reterr.sendq # <<>>
UpdateWaits == retupd.sendq # <<>>
\* what the goroutine itself holds
worker == <<pc, req, upds, err, i, sent>>

\* C26: one goroutine feeds both channels. While an error waits on the error
\* channel the goroutine stands in that send: it issues no call, sends no
\* update, does not stop or close a channel even if the context is
\* cancelled, and nothing but the consumer receiving the error moves it.
\* While an update waits on the update channel no error is sent and nothing
\* but the consumer receiving the update moves the goroutine. The two never
\* wait at once.
C26_ChannelsCoupled ==
    /\ [](ErrorWaits => pc = "reterr" /\ ~UpdateWaits)
    /\ [](UpdateWaits => pc = "retupd" /\ ~ErrorWaits)
    /\ [][ErrorWaits =>
            /\ ~CallIssued
            /\ retupd' = retupd
            /\ pc' # "stopped"
            /\ reterr'.closed = 0
            /\ worker' # worker => reterr'.sendq = <<>>]_vars
    /\ [][UpdateWaits =>
            /\ ~CallIssued
            /\ reterr' = reterr
            /\ pc' # "stopped"
            /\ retupd'.closed = 0
            /\ worker' # worker => retupd'.sendq = <<>>]_vars

C26_Witness ==
    /\ ErrorWaits
    /\ cancelled
    /\ cancelPc = "reterr"
    /\ pc = "reterr"
    /\ Len(delivered) = 1

\* the goroutine advances the cursor past update i in this step
Advances == pc = "offset" /\ pc' # "offset" /\ req.Offset <= upds[i].ID

\* C27 as stated: the advanced cursor is id + 1 computed in int64 without an overflow
\* check. For an id below the largest int64 it is id + 1 and greater than the
\* id; for the largest int64 it is the smallest int64, below the id and below
\* the cursor it replaces.
C27_AdvanceWraps ==
    [][Advances =>
          /\ upds[i].ID < MaxInt64 =>
                /\ req'.Offset = upds[i].ID + 1
                /\ req'.Offset > upds[i].ID
                /\ req'.Offset > req.Offset
          /\ upds[i].ID = MaxInt64 =>
                /\ req'.Offset = MinInt64
                /\ req'.Offset = -(2 ^ (IntBits - 1))
                /\ req'.Offset < req.Offset]_vars

\* C27, amended: as above, but the wrap lowers the cursor only if the cursor
\* was above the smallest int64; a cursor that already is the smallest int64
\* (after an earlier wrap) is written again and stays.
C27_AdvanceWrapsOrStays ==
    [][Advances =>
          /\ upds[i].ID < MaxInt64 =>
                /\ req'.Offset = upds[i].ID + 1
                /\ req'.Offset > upds[i].ID
                /\ req'.Offset > req.Offset
          /\ upds[i].ID = MaxInt64 =>
                /\ req'.Offset = MinInt64
                /\ req'.Offset = -(2 ^ (IntBits - 1))
                /\ req.Offset > MinInt64 => req'.Offset < req.Offset
                /\ req.Offset = MinInt64 => req'.Offset = req.Offset]_vars

C27_Witness ==
    /\ pc = "GetUpdates"
    /\ sent.Offset = MinInt64
    /\ prevOffset = 3
    /\ Len(delivered) = 3
    /\ delivered[3].ID = MaxInt64

\* C29: once the body of the response parsed as an envelope, ok alone
\* decides. With ok true the call is no remote error whatever the HTTP
\* status: it succeeds, or fails decoding the payload. With ok false it is the
\* remote error whatever the HTTP status, and the status is only copied into
\* it. A body that does not parse gives the decoder's error, never a remote
\* error.
C29_OkAloneDecides ==
    (rpc.calls = 1 /\ rpc.out.trips = 1 /\ rpc.reply.net) =>
        /\ (rpc.reply.parses /\ rpc.reply.Ok) =>
              /\ rpc.out.err \in {NoError, UnmarshalError}
              /\ rpc.out.err = NoError <=>
                    (~rpc.wantResponse \/ rpc.reply.Result.decodes)
        /\ (rpc.reply.parses /\ ~rpc.reply.Ok) =>
              /\ rpc.out.err.kind = "Error"
              /\ rpc.out.err.HTTPCode = rpc.reply.StatusCode
        /\ ~rpc.reply.parses =>
              /\ rpc.out.err = EnvelopeError
              /\ rpc.out.err.kind # "Error"

C29_Witness ==
    /\ rpc.calls = 1
    /\ rpc.reply.net
    /\ rpc.reply.parses
    /\ rpc.reply.Ok
    /\ rpc.reply.StatusCode = 401
    /\ rpc.out.err = NoError
    /\ rpc.out.response = [ID |-> 1]

\* the places in the fixed order of the slots of the typed update that are populated
PopulatedSlots == {k \in 1..Len(Slots) : typed.u[Slots[k]]}

\* C22: Type() derives the kind from the populated slots. With exactly one
\* slot populated it is the kind of that slot, with none it is the empty
\* kind, and with several it is the kind of the first populated slot in the
\* order message, edited_message, channel_post, edited_channel_post,
\* inline_query, chosen_inline_result, callback_query.
C22_TypeIsFirstPopulated ==
    typed.called =>
        /\ PopulatedSlots = {} => typed.kind = ""
        /\ Cardinality(PopulatedSlots) = 1 =>
              \A k \in PopulatedSlots : typed.kind = Slots[k]
        /\ Cardinality(PopulatedSlots) > 1 =>
              \E k \in PopulatedSlots :
                  /\ \A j \in PopulatedSlots : k <= j
                  /\ typed.kind = Slots[k]

C22_Witness ==
    /\ typed.called
    /\ PopulatedSlots = {2, 3, 7}
    /\ typed.kind = "edited_message"

\* what a PollUpdates session consists of
session == <<ctx, cancelled, req, retupd, reterr, pc, upds, err, i, sent>>

\* C21: a Bot method called beside a running session touches nothing of the
\* session: in a step in which the caller's Send or GetUpdates returns, the
\* session's context, request (cursor and timeout), channels and goroutine
\* are as before; and GetUpdates leaves the request value it was given as it
\* was.
C21_OneShotSharesNothing ==
    [][own' # own => (session' = session /\ own'.req = own.req)]_vars

C21_Witness ==
    /\ own.method = "GetUpdates"
    /\ own.err = NoError
    /\ own.req = [Offset |-> 2, Timeout |-> 0]
    /\ pc = "retupd"
    /\ i = 2
    /\ req.Offset = 3

\* goroutine w assigns to the cursor in this step and the cursor goes down
Lowers(w) ==
    /\ race.w[w].pc = "assign"
    /\ race'.w[w] # race.w[w]
    /\ req'.Offset < req.Offset

\* C28: the test of the cursor and the assignment to it are two steps on a
\* request value nothing protects. An assignment that lowers the cursor
\* (other than by the int64 wrap of the largest id) is made only with two
\* sessions on the request value, by a goroutine whose test read a cursor
\* below the one it overwrites, the other goroutine having written in
\* between or beside it; with one session no assignment lowers the cursor.
\* The witness is the lowering: the cursor one goroutine wrote is below a
\* value the other had written.
C28_RaceLowersCursor ==
    [][\A w \in {1, 2} :
          Lowers(w) =>
              \/ race.w[w].upds[race.w[w].i].ID = MaxInt64
              \/ /\ race.n = 2
                 /\ race.w[w].seen < req.Offset
                 /\ race.w[Other(w)].wrote # {}]_vars

C28_Witness ==
    /\ race.n = 2
    /\ req.Offset = 2
    /\ race.w[1].last = <<2>>
    /\ race.w[1].seen = 0
    /\ race.w[2].wrote = {3}

====
